---- MODULE Spec2Model ----
(***************************************************************************)
(* Model of src/app.py: a Flask application with four AI-backed POST       *)
(* handlers (/send_api, /api/generate_name, /api/proofread,                *)
(* /api/thesaurus), GET /api/history, and the module-level state           *)
(* history_log (an in-memory list) and client (the provider client, None   *)
(* when no API key is configured).                                         *)
(*                                                                         *)
(* The development server started by app.run (line 296) serves requests on *)
(* threads, so a handler is modelled in two steps split at its one         *)
(* blocking call, client.chat.completions.create: the part up to and       *)
(* including the start of the call, and the part that runs when the call   *)
(* returns or raises.  A handler that returns before the call is one step. *)
(*                                                                         *)
(* A Python str is a sequence of one-character strings.  A fixed literal   *)
(* that a format string places around a value is one element of the        *)
(* sequence.  A Python value that may be a str, None or a number is a      *)
(* tagged record [t, v].                                                   *)
(***************************************************************************)
EXTENDS Integers, Sequences, FiniteSets, TLC

VARIABLES
    client,           \* line 40-49: TRUE iff the OpenAI client was built
    history_log,      \* line 16: the list of {"user", "ai"} records
    pc,               \* per serving thread: "idle", "calling", "done"
    req,              \* per thread: the request being (or last) served
    chat_completion,  \* per thread: what the provider call produced
    resp,             \* per thread: the response sent for req
    nreq              \* number of requests received so far

vars == <<client, history_log, pc, req, chat_completion, resp, nreq>>

Threads == {"t1", "t2"}

-----------------------------------------------------------------------------
(* Bounds of the model. *)

MaxRequests == 3   \* requests served in one run of the main specification
MaxTextLen == 3    \* exhaustive request texts have at most this many characters

-----------------------------------------------------------------------------
(* Python values. *)

PyStr(s) == [t |-> "str", v |-> s]
PyNone == [t |-> "none", v |-> <<>>]
PyInt == [t |-> "int", v |-> <<>>]        \* a JSON number
Absent == [t |-> "absent", v |-> <<>>]    \* a key the JSON object does not have

\* str(x) as an f-string interpolates it: None is rendered as the text None.
Format(x) == IF x.t = "none" THEN <<"N", "o", "n", "e">> ELSE x.v

Tab == "\t"
FWSpace == "U+3000"      \* ideographic space, whitespace for str.split/strip
FWComma == "U+3001"      \* the full-width (ideographic) comma
AsciiComma == ","

\* The characters str.strip() and str.split() treat as whitespace.
Whitespace == {" ", Tab, FWSpace}

MinOf(S) == CHOOSE m \in S : \A n \in S : m <= n
MaxOf(S) == CHOOSE m \in S : \A n \in S : m >= n

\* str.strip(): drop leading and trailing whitespace.
strip(s) ==
    LET keep == {i \in DOMAIN s : s[i] \notin Whitespace}
    IN  IF keep = {} THEN <<>> ELSE SubSeq(s, MinOf(keep), MaxOf(keep))

\* str.replace(old, new) for one-character old and new.
replace(s, old, new) == [i \in DOMAIN s |-> IF s[i] = old THEN new ELSE s[i]]

\* str.split() with no argument: split on runs of whitespace, no empty tokens.
RECURSIVE SplitFrom(_, _, _, _)
SplitFrom(s, i, cur, acc) ==
    IF i > Len(s)
    THEN IF cur = <<>> THEN acc ELSE Append(acc, cur)
    ELSE IF s[i] \in Whitespace
         THEN SplitFrom(s, i + 1, <<>>, IF cur = <<>> THEN acc ELSE Append(acc, cur))
         ELSE SplitFrom(s, i + 1, Append(cur, s[i]), acc)

split(s) == SplitFrom(s, 1, <<>>, <<>>)

-----------------------------------------------------------------------------
(* Program constants and literals. *)

MaxKeywords == 10        \* line 103: word_count > 10
MaxKeywordsSingle == 1   \* lines 159, 263: word_count > 1
MaxChars == 500          \* line 214: len(received_text) > 500

ErrNotConfigured == "OpenRouter API key is not configured on the server."
ErrMissingText == "Missing 'text' in request body"
ErrEmpty == "Input text cannot be empty"
ErrTooManyKeywords == "keywords: at most 10"          \* line 105
ErrOneKeyword == "keywords: exactly one"              \* lines 160, 264
ErrProofreadEmpty == "proofread: enter a text"        \* line 211
ErrTooManyChars == "proofread: at most 500 characters" \* line 216
ErrThesaurusEmpty == "thesaurus: enter a keyword"     \* line 258
ErrProvider == "error while talking to the AI service" \* lines 137, 194, 241, 289
Placeholder == <<"no valid response from the AI">>    \* lines 130, 185, 235, 283

AIEndpoints == {"send_api", "generate_name", "proofread", "thesaurus"}

-----------------------------------------------------------------------------
(* Requests, completions and responses. *)

\* A request body.  json = FALSE: the request carries no JSON document.
Body(text, context, type) ==
    [json |-> TRUE, text |-> text, context |-> context, type |-> type]
NoJsonBody == [json |-> FALSE, text |-> Absent, context |-> Absent, type |-> "absent"]

NoReq == [endpoint |-> "none", body |-> NoJsonBody]

\* What client.chat.completions.create produced.
Raised(detail) == [kind |-> "raise", content |-> PyNone, detail |-> detail]
NoChoices == [kind |-> "nochoices", content |-> PyNone, detail |-> ""]
NoMessage == [kind |-> "nomessage", content |-> PyNone, detail |-> ""]
Message(content) == [kind |-> "message", content |-> content, detail |-> ""]
NoCompletion == [kind |-> "none", content |-> PyNone, detail |-> ""]

\* A response.  by = "handler": the handler returned it with jsonify;
\* by = "framework": an exception left the handler and Flask answered.
Resp(status, by, error, message, processed_text, body) ==
    [status |-> status, by |-> by, error |-> error, message |-> message,
     processed_text |-> processed_text, body |-> body]
NoResp == Resp(0, "none", "", "", PyNone, <<>>)
Pass == Resp(0, "pass", "", "", PyNone, <<>>)   \* validation let the request through
JsonError(status, error) == Resp(status, "handler", error, "", PyNone, <<>>)
JsonOk(message, processed_text) == Resp(200, "handler", "", message, processed_text, <<>>)
Escaped(status) == Resp(status, "framework", "", "", PyNone, <<>>)

-----------------------------------------------------------------------------
(* Pieces shared by the four AI-backed handlers. *)

\* A handler that forgets the check of the client.
not_client_skipped(c) == FALSE

\* `if not client:` (lines 82, 142, 199, 246).
not_client(c) == ~c

\* request.get_json() (lines 88, 146, 203, 250).  For a request that carries
\* no JSON document the result depends on the installed Flask: it returns
\* None, or raises an HTTP error that Flask itself answers (415).
get_json(body) == IF body.json THEN {"data"} ELSE {"none", "raise"}

\* `not data or 'text' not in data` (lines 91, 147, 204, 251).
missing_text(body, gj) == gj = "none" \/ body.text.t = "absent"

\* A check of the choices alone, forgetting the message.
has_choices(cc) == cc.kind \in {"message", "nomessage"}

\* `chat_completion.choices and chat_completion.choices[0].message`
\* (lines 125, 182, 230, 278).
has_message(cc) == cc.kind = "message"

\* A record with more than the two fields.
HistoryRecordWithId(user, ai) == [user |-> user, ai |-> ai, id |-> user]

\* The dict literal of history_log.append({...}) (lines 128, 188, 233, 281).
HistoryRecord(user, ai) == [user |-> user, ai |-> ai]

\* A write to the slot a concurrent writer has just filled.
ListAppendStaleSlot(log, rec) ==
    IF log = <<>> THEN <<rec>> ELSE [log EXCEPT ![Len(log)] = rec]

\* An insert at the front.
ListPrepend(log, rec) == <<rec>> \o log

\* list.append (lines 128, 188, 233, 281).
ListAppend(log, rec) == Append(log, rec)

\* A response that passes the raised error on.
provider_failure_detail(e) == JsonError(500, e)

\* The `except Exception as e` branch (lines 134-137, 192-194, 239-241,
\* 287-289): e is logged, the response carries the fixed message.
provider_failure(e) == JsonError(500, ErrProvider)

\* word_count of line 102: only the full-width comma is replaced by a space.
word_count_plot(text) == Len(split(replace(text, FWComma, " ")))

\* A count that forgets the ASCII comma.
word_count_single_nocomma(text) == Len(split(replace(text, FWComma, " ")))

\* word_count of lines 158 and 262: the ASCII comma is replaced as well.
word_count_single(text) ==
    Len(split(replace(replace(text, FWComma, " "), AsciiComma, " ")))

\* The state change of a handler's first part: r is Pass when the handler
\* reached the provider call, else the response it returned (or Flask sent).
Begin(t, endpoint, body, r) ==
    /\ pc[t] # "calling"
    /\ req' = [req EXCEPT ![t] = [endpoint |-> endpoint, body |-> body]]
    /\ chat_completion' = [chat_completion EXCEPT ![t] = NoCompletion]
    /\ nreq' = nreq + 1
    /\ IF r = Pass
       THEN /\ pc' = [pc EXCEPT ![t] = "calling"]
            /\ resp' = [resp EXCEPT ![t] = NoResp]
       ELSE /\ pc' = [pc EXCEPT ![t] = "done"]
            /\ resp' = [resp EXCEPT ![t] = r]
    /\ UNCHANGED <<client, history_log>>

\* The state change of a handler's second part.
End(t, cc, log, r) ==
    /\ chat_completion' = [chat_completion EXCEPT ![t] = cc]
    /\ history_log' = log
    /\ resp' = [resp EXCEPT ![t] = r]
    /\ pc' = [pc EXCEPT ![t] = "done"]
    /\ UNCHANGED <<client, req, nreq>>

-----------------------------------------------------------------------------
(* GET /api/history, lines 75-77. *)

get_history(t) ==
    /\ pc[t] # "calling"
    /\ req' = [req EXCEPT ![t] = [endpoint |-> "history", body |-> NoJsonBody]]
    /\ chat_completion' = [chat_completion EXCEPT ![t] = NoCompletion]
    /\ resp' = [resp EXCEPT ![t] = Resp(200, "handler", "", "", PyNone, history_log)]
    /\ pc' = [pc EXCEPT ![t] = "done"]
    /\ nreq' = nreq + 1
    /\ UNCHANGED <<client, history_log>>

-----------------------------------------------------------------------------
(* POST /send_api, lines 80-137. *)

\* Lines 82-108: everything before the try block.
send_api_check(c, body, gj) ==
    IF not_client(c) THEN JsonError(500, ErrNotConfigured)
    ELSE IF gj = "raise" THEN Escaped(415)
    ELSE IF missing_text(body, gj) THEN JsonError(400, ErrMissingText)
    ELSE IF body.text.t # "str" THEN Escaped(500)        \* .strip() on a non-str
    ELSE IF strip(body.text.v) = <<>> THEN JsonError(400, ErrEmpty)
    ELSE IF word_count_plot(body.text.v) > MaxKeywords
         THEN JsonError(400, ErrTooManyKeywords)
    ELSE IF body.context.t \notin {"absent", "str"} THEN Escaped(500)  \* line 108
    ELSE Pass

send_api(t, body) ==
    \E gj \in get_json(body) : Begin(t, "send_api", body, send_api_check(client, body, gj))

\* Lines 116-137: the provider call returns cc or raises.
send_api_return(t, cc) ==
    /\ pc[t] = "calling"
    /\ req[t].endpoint = "send_api"
    /\ LET received_text == req[t].body.text.v
       IN  IF cc.kind = "raise"
           THEN End(t, cc, history_log, provider_failure(cc.detail))
           ELSE IF has_message(cc)
           THEN End(t, cc,
                    ListAppend(history_log, HistoryRecord(received_text, cc.content)),
                    JsonOk("processed", cc.content))
           ELSE End(t, cc, history_log, JsonOk("processed", PyStr(Placeholder)))

-----------------------------------------------------------------------------
(* POST /api/generate_name, lines 140-194. *)

\* Lines 142-160.
generate_name_check(c, body, gj) ==
    IF not_client(c) THEN JsonError(500, ErrNotConfigured)
    ELSE IF gj = "raise" THEN Escaped(415)
    ELSE IF missing_text(body, gj) THEN JsonError(400, ErrMissingText)
    ELSE IF body.text.t # "str" THEN Escaped(500)
    ELSE IF strip(body.text.v) = <<>> THEN JsonError(400, ErrEmpty)
    ELSE IF word_count_single(body.text.v) > MaxKeywordsSingle
         THEN JsonError(400, ErrOneKeyword)
    ELSE Pass

\* Lines 163-171: history_user_text.
history_user_text(body) ==
    LET generation_type == IF body.type = "absent" THEN "surname" ELSE body.type
    IN  IF generation_type = "surname"
        THEN <<"[">> \o body.text.v \o <<"] in the surname">>
        ELSE <<"[">> \o body.text.v \o <<"] in the given name">>

generate_name_api(t, body) ==
    \E gj \in get_json(body) :
        Begin(t, "generate_name", body, generate_name_check(client, body, gj))

\* Lines 174-194: the append is outside the if/else.
generate_name_api_return(t, cc) ==
    /\ pc[t] = "calling"
    /\ req[t].endpoint = "generate_name"
    /\ IF cc.kind = "raise"
       THEN End(t, cc, history_log, provider_failure(cc.detail))
       ELSE LET processed_text ==
                    IF has_message(cc) THEN cc.content ELSE PyStr(Placeholder)
            IN  End(t, cc,
                    ListAppend(history_log,
                               HistoryRecord(history_user_text(req[t].body), processed_text)),
                    JsonOk("name generated", processed_text))

-----------------------------------------------------------------------------
(* POST /api/proofread, lines 197-241. *)

\* Lines 199-216.
proofread_check(c, body, gj) ==
    IF not_client(c) THEN JsonError(500, ErrNotConfigured)
    ELSE IF gj = "raise" THEN Escaped(415)
    ELSE IF missing_text(body, gj) THEN JsonError(400, ErrMissingText)
    ELSE IF body.text.t # "str" THEN Escaped(500)
    ELSE IF strip(body.text.v) = <<>> THEN JsonError(400, ErrProofreadEmpty)
    ELSE IF Len(body.text.v) > MaxChars THEN JsonError(400, ErrTooManyChars)
    ELSE Pass

proofread_api(t, body) ==
    \E gj \in get_json(body) :
        Begin(t, "proofread", body, proofread_check(client, body, gj))

\* Lines 222-241.
proofread_api_return(t, cc) ==
    /\ pc[t] = "calling"
    /\ req[t].endpoint = "proofread"
    /\ LET received_text == req[t].body.text.v
       IN  IF cc.kind = "raise"
           THEN End(t, cc, history_log, provider_failure(cc.detail))
           ELSE IF has_message(cc)
           THEN End(t, cc,
                    ListAppend(history_log,
                        HistoryRecord(<<"[proofread request]\n">> \o received_text,
                                      PyStr(<<"[proofread result]\n">> \o Format(cc.content)))),
                    JsonOk("proofread", cc.content))
           ELSE End(t, cc, history_log, JsonOk("proofread", PyStr(Placeholder)))

-----------------------------------------------------------------------------
(* POST /api/thesaurus, lines 244-289. *)

\* Lines 246-264.
thesaurus_check(c, body, gj) ==
    IF not_client(c) THEN JsonError(500, ErrNotConfigured)
    ELSE IF gj = "raise" THEN Escaped(415)
    ELSE IF missing_text(body, gj) THEN JsonError(400, ErrMissingText)
    ELSE IF body.text.t # "str" THEN Escaped(500)
    ELSE IF strip(body.text.v) = <<>> THEN JsonError(400, ErrThesaurusEmpty)
    ELSE IF word_count_single(body.text.v) > MaxKeywordsSingle
         THEN JsonError(400, ErrOneKeyword)
    ELSE Pass

thesaurus_api(t, body) ==
    \E gj \in get_json(body) :
        Begin(t, "thesaurus", body, thesaurus_check(client, body, gj))

\* Lines 270-289.
thesaurus_api_return(t, cc) ==
    /\ pc[t] = "calling"
    /\ req[t].endpoint = "thesaurus"
    /\ LET received_text == req[t].body.text.v
       IN  IF cc.kind = "raise"
           THEN End(t, cc, history_log, provider_failure(cc.detail))
           ELSE IF has_message(cc)
           THEN End(t, cc,
                    ListAppend(history_log,
                        HistoryRecord(<<"[thesaurus query]\n">> \o received_text,
                                      PyStr(<<"[thesaurus answer]\n">> \o Format(cc.content)))),
                    JsonOk("thesaurus", cc.content))
           ELSE End(t, cc, history_log, JsonOk("thesaurus", PyStr(Placeholder)))

-----------------------------------------------------------------------------
(* Process start, lines 16 and 33-49: history_log = [], client is built iff *)
(* the environment holds an API key.                                        *)

Init ==
    /\ client \in BOOLEAN
    /\ history_log = <<>>
    /\ pc = [t \in Threads |-> "idle"]
    /\ req = [t \in Threads |-> NoReq]
    /\ chat_completion = [t \in Threads |-> NoCompletion]
    /\ resp = [t \in Threads |-> NoResp]
    /\ nreq = 0

\* A start that finds the records of the previous run.
RestartKeepsLog ==
    /\ client' \in BOOLEAN
    /\ history_log' = history_log
    /\ pc' = [t \in Threads |-> "idle"]
    /\ chat_completion' = [t \in Threads |-> NoCompletion]
    /\ UNCHANGED <<req, resp, nreq>>

\* The process is stopped and started again: the module body runs anew.
\* Requests in flight are dropped; req and resp keep the last exchange each
\* connection saw.
Restart ==
    /\ client' \in BOOLEAN
    /\ history_log' = <<>>
    /\ pc' = [t \in Threads |-> "idle"]
    /\ chat_completion' = [t \in Threads |-> NoCompletion]
    /\ UNCHANGED <<req, resp, nreq>>

-----------------------------------------------------------------------------
(* Inputs. *)

Alphabet == {"a", " ", Tab, FWComma, AsciiComma}

SeqsUpTo(S, n) == UNION {[1..k -> S] : k \in 0..n}

\* n one-letter keywords joined by sep.
Rep(n, sep) == [i \in 1..(2 * n - 1) |-> IF i % 2 = 1 THEN "a" ELSE sep]

\* n letters.
Long(n) == [i \in 1..n |-> "a"]

ShortTexts == SeqsUpTo(Alphabet, MaxTextLen)

KeywordTexts ==
    ShortTexts \cup {Rep(n, sep) : n \in {MaxKeywords, MaxKeywords + 1},
                                   sep \in {" ", Tab, FWComma, AsciiComma}}

ProofTexts == ShortTexts \cup {Long(MaxChars), Long(MaxChars + 1)}

TextValues(texts) == {Absent, PyInt, PyNone} \cup {PyStr(s) : s \in texts}

\* What the provider call can produce.
Completions(details) ==
    {Raised(d) : d \in details}
        \cup {NoChoices, NoMessage, Message(PyNone), Message(PyStr(<<"x">>))}

\* The inputs of the main specification: a few bodies per endpoint.
MainTexts == {<<>>, <<"a">>}
MainIn ==
    [plot  |-> {NoJsonBody} \cup {Body(x, Absent, "absent") : x \in TextValues(MainTexts)},
     name  |-> {Body(x, Absent, "absent") : x \in TextValues(MainTexts)},
     proof |-> {Body(x, Absent, "absent") : x \in TextValues(MainTexts)},
     thes  |-> {Body(x, Absent, "absent") : x \in TextValues(MainTexts)},
     completions |-> Completions({"timeout", "401"})]

\* The inputs of the validation specification: every short text, the texts
\* around each ceiling, every kind of body.
ValIn ==
    [plot  |-> {NoJsonBody} \cup
               {Body(x, c, "absent") : x \in TextValues(KeywordTexts),
                                       c \in {Absent, PyStr(<<" ", "c">>), PyInt}},
     name  |-> {NoJsonBody} \cup
               {Body(x, Absent, ty) : x \in TextValues(ShortTexts),
                                      ty \in {"absent", "surname", "given_name"}},
     proof |-> {NoJsonBody} \cup {Body(x, Absent, "absent") : x \in TextValues(ProofTexts)},
     thes  |-> {NoJsonBody} \cup {Body(x, Absent, "absent") : x \in TextValues(KeywordTexts)},
     completions |-> Completions({"timeout", "401"})]

-----------------------------------------------------------------------------
(* Specifications. *)

Return(T, In) ==
    \E t \in T : \E cc \in In.completions :
        \/ send_api_return(t, cc)
        \/ generate_name_api_return(t, cc)
        \/ proofread_api_return(t, cc)
        \/ thesaurus_api_return(t, cc)

\* Requests on two threads, at most MaxRequests in all.
Next ==
    \/ \E t \in Threads : \E b \in MainIn.plot : nreq < MaxRequests /\ send_api(t, b)
    \/ \E t \in Threads : \E b \in MainIn.name : nreq < MaxRequests /\ generate_name_api(t, b)
    \/ \E t \in Threads : \E b \in MainIn.proof : nreq < MaxRequests /\ proofread_api(t, b)
    \/ \E t \in Threads : \E b \in MainIn.thes : nreq < MaxRequests /\ thesaurus_api(t, b)
    \/ \E t \in Threads : nreq < MaxRequests /\ get_history(t)
    \/ Return(Threads, MainIn)

Spec == Init /\ [][Next]_vars

\* One connection, with restarts of the process.
RestartNext ==
    \/ \E b \in MainIn.plot : nreq < MaxRequests /\ send_api("t1", b)
    \/ \E b \in MainIn.name : nreq < MaxRequests /\ generate_name_api("t1", b)
    \/ \E b \in MainIn.proof : nreq < MaxRequests /\ proofread_api("t1", b)
    \/ \E b \in MainIn.thes : nreq < MaxRequests /\ thesaurus_api("t1", b)
    \/ nreq < MaxRequests /\ get_history("t1")
    \/ Return({"t1"}, MainIn)
    \/ Restart

RestartSpec == Init /\ [][RestartNext]_vars

\* One request, of any shape, served to its end.
ValNext ==
    \/ \E b \in ValIn.plot : nreq = 0 /\ send_api("t1", b)
    \/ \E b \in ValIn.name : nreq = 0 /\ generate_name_api("t1", b)
    \/ \E b \in ValIn.proof : nreq = 0 /\ proofread_api("t1", b)
    \/ \E b \in ValIn.thes : nreq = 0 /\ thesaurus_api("t1", b)
    \/ Return({"t1"}, ValIn)

ValSpec == Init /\ [][ValNext]_vars

-----------------------------------------------------------------------------
(* Vocabulary of the properties. *)

IsPrefix(a, b) == Len(a) <= Len(b) /\ SubSeq(b, 1, Len(a)) = a

Count(log, rec) == Cardinality({i \in DOMAIN log : log[i] = rec})

AI(t) == req[t].endpoint \in AIEndpoints

\* Thread t has answered its request.
Done(t) == pc[t] = "done"

\* Thread t takes the step in which its provider call ends.
Returns(t) == pc[t] = "calling" /\ pc'[t] = "done"

\* The request of t carries a JSON object whose text is a str that is not
\* blank, and the client is configured: the request reaches the word count.
ReachesWordCount(t) ==
    /\ pc[t] \in {"calling", "done"}
    /\ client
    /\ req[t].body.json
    /\ req[t].body.text.t = "str"
    /\ \E i \in DOMAIN req[t].body.text.v : req[t].body.text.v[i] \notin Whitespace

\* The response of t is the 400 of a word-count ceiling.
TooManyWords(t) ==
    /\ resp[t].status = 400
    /\ resp[t].by = "handler"
    /\ resp[t].error \in {ErrTooManyKeywords, ErrOneKeyword}

\* The number of tokens of s when it is cut at the characters of delims:
\* the number of places where a token starts.
Tokens(s, delims) ==
    Cardinality({i \in DOMAIN s : s[i] \notin delims /\ (i = 1 \/ s[i - 1] \in delims)})

Ceiling(endpoint) == IF endpoint = "send_api" THEN MaxKeywords ELSE MaxKeywordsSingle

\* The characters the two handlers cut the text at.
Delims(endpoint) ==
    IF endpoint = "send_api"
    THEN Whitespace \cup {FWComma}
    ELSE Whitespace \cup {FWComma, AsciiComma}

\* The provider answered t without raising and without a usable content.
NoUsableContent(t) ==
    \/ chat_completion[t].kind \in {"nochoices", "nomessage"}
    \/ chat_completion[t].kind = "message" /\ chat_completion[t].content = PyNone

\* Thread t answered with a success that, by the handler's code, wrote a record.
Wrote(t) ==
    /\ Done(t) /\ AI(t)
    /\ resp[t].status = 200
    /\ req[t].endpoint = "generate_name" \/ chat_completion[t].kind = "message"

\* The record the success response of t stands for.
Written(t) ==
    LET text == req[t].body.text.v
        out == resp[t].processed_text
    IN  CASE req[t].endpoint = "send_api" -> [user |-> text, ai |-> out]
          [] req[t].endpoint = "generate_name" ->
                [user |-> history_user_text(req[t].body), ai |-> out]
          [] req[t].endpoint = "proofread" ->
                [user |-> <<"[proofread request]\n">> \o text,
                 ai |-> PyStr(<<"[proofread result]\n">> \o Format(out))]
          [] OTHER ->
                [user |-> <<"[thesaurus query]\n">> \o text,
                 ai |-> PyStr(<<"[thesaurus answer]\n">> \o Format(out))]

\* The history holds fewer copies of the record of t than there are
\* answered requests standing for that record.
LostUpdate ==
    \E t \in Threads :
        /\ Wrote(t)
        /\ Count(history_log, Written(t)) <
             Cardinality({u \in Threads : Wrote(u) /\ Written(u) = Written(t)})

\* Thread t holds the answer of a GET /api/history.
Listed(t) == Done(t) /\ req[t].endpoint = "history"

\* A step in which the process starts anew while serving.
ProcessStarts == (\E t \in Threads : pc[t] # "idle") /\ (\A t \in Threads : pc'[t] = "idle")

-----------------------------------------------------------------------------
(* C1 *)

\* C1, as stated: every step in which an AI-backed handler ends in a success
\* response, the placeholder case included, makes the history one record
\* longer.
C1_SuccessAddsOneRecord ==
    [][\A t \in Threads :
          (Returns(t) /\ resp'[t].status = 200)
              => Len(history_log') = Len(history_log) + 1]_vars

\* C1, amended: a success of /api/generate_name always adds exactly one
\* record; a success of the other three handlers adds exactly one record
\* when the provider returned a message and leaves the history as it was
\* when the placeholder is returned.
C1_SuccessRecordRule ==
    [][\A t \in Threads :
          (Returns(t) /\ resp'[t].status = 200)
              => IF req[t].endpoint = "generate_name"
                      \/ chat_completion'[t].kind = "message"
                 THEN /\ Len(history_log') = Len(history_log) + 1
                      /\ IsPrefix(history_log, history_log')
                 ELSE history_log' = history_log]_vars

\* A /send_api request answered with the placeholder, and no record of it.
C1_Witness ==
    \E t \in Threads :
        /\ Done(t) /\ req[t].endpoint = "send_api"
        /\ resp[t].status = 200
        /\ resp[t].processed_text = PyStr(Placeholder)
        /\ nreq = 1 /\ history_log = <<>>

-----------------------------------------------------------------------------
(* C2 *)

\* C2: whatever the body, an AI-backed handler answers itself, with a JSON
\* body and status 200, 400 or 500; no exception leaves the handler.
C2_HandlerAlwaysAnswers ==
    \A t \in Threads :
        (Done(t) /\ AI(t))
            => resp[t].by = "handler" /\ resp[t].status \in {200, 400, 500}

-----------------------------------------------------------------------------
(* C3 *)

\* C3: when the provider call returns with no usable content (no choices,
\* no message, or a message without content), the response is a success
\* whose processed_text is the placeholder.
C3_NoContentGivesPlaceholder ==
    \A t \in Threads :
        (Done(t) /\ AI(t) /\ NoUsableContent(t))
            => resp[t].status = 200 /\ resp[t].processed_text = PyStr(Placeholder)

-----------------------------------------------------------------------------
(* C4 *)

\* C4: without a configured client no provider call is ever in flight,
\* every answered AI-backed request got the 500 of the missing key, and the
\* history stays as it was at the start.
C4_NoClientFailsAtOnce ==
    (~client)
        => /\ \A t \in Threads : pc[t] # "calling"
           /\ \A t \in Threads :
                 (Done(t) /\ AI(t)) => resp[t] = JsonError(500, ErrNotConfigured)
           /\ history_log = <<>>

\* Without a client, a well-formed request was answered.
C4_Witness ==
    /\ ~client
    /\ \E t \in Threads :
          /\ Done(t) /\ AI(t)
          /\ req[t].body.text = PyStr(<<"a">>)
          /\ resp[t].status = 500

-----------------------------------------------------------------------------
(* C5 *)

\* C5: in the step in which the provider call of a handler raises, the
\* response is the 500 with the fixed message, whatever was raised, and the
\* history does not change.
C5_ProviderErrorIsGeneric500 ==
    [][\A t \in Threads :
          (Returns(t) /\ chat_completion'[t].kind = "raise")
              => /\ resp'[t] = JsonError(500, ErrProvider)
                 /\ history_log' = history_log]_vars

\* A provider call raised while the history held a record.
C5_Witness ==
    \E t \in Threads :
        /\ Done(t) /\ AI(t)
        /\ chat_completion[t].kind = "raise"
        /\ resp[t].status = 500
        /\ history_log # <<>>

-----------------------------------------------------------------------------
(* C6 *)

\* C6, as stated: a restart of the process reproduces the sequence of
\* records that existed before it.
C6_RestartReproducesHistory ==
    [][ProcessStarts => history_log' = history_log]_vars

\* C6, amended: the history lives in memory only; after a restart it is
\* empty, whatever was appended before.
C6_RestartEmptiesHistory ==
    [][ProcessStarts => history_log' = <<>>]_vars

\* After a restart: every thread idle again, a request that wrote a record
\* was answered before, and the history is empty.
C6_Witness ==
    /\ nreq > 0
    /\ \A t \in Threads : pc[t] = "idle"
    /\ \E t \in Threads : req[t].endpoint = "generate_name" /\ resp[t].status = 200
    /\ history_log = <<>>

-----------------------------------------------------------------------------
(* C7 *)

\* C7, as stated: on /send_api and /api/thesaurus the text is cut at the
\* ASCII space and the full-width comma only, and the request is rejected
\* with the word-count 400 exactly when the tokens exceed the ceiling.
C7_SpaceAndFullWidthCommaOnly ==
    \A t \in Threads :
        (ReachesWordCount(t) /\ req[t].endpoint \in {"send_api", "thesaurus"})
            => (TooManyWords(t)
                  <=> Tokens(req[t].body.text.v, {" ", FWComma}) > Ceiling(req[t].endpoint))

\* C7, amended: the text is cut at every whitespace character and at the
\* full-width comma, and on /api/thesaurus at the ASCII comma as well; the
\* request is rejected with the word-count 400 exactly when the tokens
\* exceed the ceiling (10 on /send_api, 1 on /api/thesaurus).
C7_TokenRule ==
    \A t \in Threads :
        (ReachesWordCount(t) /\ req[t].endpoint \in {"send_api", "thesaurus"})
            => (TooManyWords(t)
                  <=> Tokens(req[t].body.text.v, Delims(req[t].endpoint))
                        > Ceiling(req[t].endpoint))

\* /api/thesaurus rejected two keywords joined by an ASCII comma.
C7_Witness ==
    \E t \in Threads :
        /\ req[t].endpoint = "thesaurus"
        /\ req[t].body.text = PyStr(<<"a", AsciiComma, "a">>)
        /\ ReachesWordCount(t)
        /\ TooManyWords(t)

-----------------------------------------------------------------------------
(* C8 *)

-----------------------------------------------------------------------------
(* C9 *)

\* C9, as stated: requests served on two threads that both end in a
\* success that writes a record leave the history without the record of one
\* of them.
C9_UpdateIsLost == (Wrote("t1") /\ Wrote("t2")) => LostUpdate

\* C9, amended: no interleaving loses a record; whenever requests have
\* ended in a success that writes a record, the history holds a copy of the
\* record for each of them.
C9_NoLostUpdate == ~LostUpdate

\* Two requests were in flight together, both wrote, and both records are
\* in the history.
C9_Witness ==
    /\ Wrote("t1") /\ Wrote("t2")
    /\ nreq = 2
    /\ Len(history_log) = 2
    /\ history_log[1] = Written("t2")
    /\ history_log[2] = Written("t1")
    /\ Written("t1") # Written("t2")

-----------------------------------------------------------------------------
(* C10 *)

\* C10: the history only grows at its end; GET /api/history answers with
\* the whole history in order, and the answer of an earlier GET is a prefix
\* of the answer of every later one.
C10_AppendOnly ==
    [][/\ IsPrefix(history_log, history_log')
       /\ \A t \in Threads :
             (Listed(t)' /\ (~Listed(t) \/ resp'[t] # resp[t]))
                 => /\ resp'[t].body = history_log
                    /\ \A u \in Threads :
                          Listed(u) => IsPrefix(resp[u].body, resp'[t].body)]_vars

\* An earlier and a later listing, the later one longer.
C10_Witness ==
    \E t, u \in Threads :
        /\ Listed(t) /\ Listed(u)
        /\ Len(resp[t].body) < Len(resp[u].body)
        /\ resp[u].body = history_log

====
